---- MODULE Spec2Model ----
(***************************************************************************)
(* Model of the EconomicBubbleSim server: the EconomicEngine               *)
(* (server/economicEngine.ts) and the SimulationWebSocketServer that       *)
(* drives it (the websocket module), with the storage layer                *)
(* (server/storage.ts) as the persistent record sink.                      *)
(*                                                                         *)
(* Numbers.  The engine computes in IEEE doubles; the model computes in    *)
(* fixed point.  medianPrice, housingStarts and the action parameters      *)
(* price, income, downPayment, quantity, leverage and quarter are whole    *)
(* numbers; every other numeric field is held in hundredths (8.5 is 850,   *)
(* the time quantum 0.25 is 25).  Divisions round down.  NaN is a          *)
(* sentinel that every arithmetic helper propagates the way IEEE does; an  *)
(* absent (undefined) parameter reads as NaN, since it behaves as NaN in   *)
(* every arithmetic use the engine makes of it.                            *)
(***************************************************************************)
EXTENDS Integers, Sequences, FiniteSets, TLC

VARIABLES
    marketState,    \* EconomicEngine.marketState
    policyState,    \* EconomicEngine.policyState
    clients,        \* SimulationWebSocketServer.clients, by connection id
    sessions,       \* storage: game_sessions rows, by id
    decisions,      \* storage: student_decisions rows, in insertion order
    marketEvents,   \* storage: market_events rows, in insertion order
    handlers,       \* async message handlers suspended at an await, by receipt number
    outbox,         \* per connection, the messages ws.send delivered to it
    received,       \* the messages and timer ticks the server received, in order
    engineCalls     \* calls made to the engine so far (observation only)

vars == <<marketState, policyState, clients, sessions, decisions,
          marketEvents, handlers, outbox, received, engineCalls>>

engineVars == <<marketState, policyState>>
serverVars == <<clients, sessions, decisions, marketEvents, handlers, outbox, received>>

-----------------------------------------------------------------------------
(* Bounds *)

\* connection ids the registry can hold
MaxClients == 3
\* Spec: connections opened, and messages and ticks received
MaxConnections == 2
MaxMessages == 3
\* OrderingSpec: player actions received
MaxOverlappingActions == 2
\* EngineSpec: calls made to the engine
MaxEngineCalls == 4

-----------------------------------------------------------------------------
(* IEEE special values and the arithmetic that propagates them *)

NaN == -2000000001
PosInfinity == 2000000000
NegInfinity == -2000000000
\* A finite double near Number.MAX_VALUE (1.7e308, say): it absorbs every
\* ordinary value added to it, and its product with 1.2 or more overflows to
\* Infinity.  -Huge is its negation.
Huge == 1999999999

IsNaN(x) == x = NaN
IsFinite(x) == x # NaN /\ x # PosInfinity /\ x # NegInfinity
IsInfinite(x) == x = PosInfinity \/ x = NegInfinity
IsHuge(x) == x = Huge \/ x = -Huge

\* unary minus
Neg(a) == IF IsNaN(a) THEN NaN ELSE -a

Add(a, b) ==
    IF IsNaN(a) \/ IsNaN(b) THEN NaN
    ELSE IF IsInfinite(a) THEN (IF IsInfinite(b) /\ b # a THEN NaN ELSE a)
    ELSE IF IsInfinite(b) THEN b
    ELSE IF IsHuge(a)
         THEN (IF b = a THEN (IF a > 0 THEN PosInfinity ELSE NegInfinity)
               ELSE IF b = -a THEN 0 ELSE a)
    ELSE IF IsHuge(b) THEN b
    ELSE a + b
Sub(a, b) == Add(a, Neg(b))
Mul(a, b) ==
    IF IsNaN(a) \/ IsNaN(b) THEN NaN
    ELSE IF IsInfinite(a) \/ IsInfinite(b)
         THEN (IF a = 0 \/ b = 0 THEN NaN
               ELSE IF (a > 0) = (b > 0) THEN PosInfinity ELSE NegInfinity)
    ELSE IF IsHuge(a) \/ IsHuge(b)
         THEN (IF a = 0 \/ b = 0 THEN 0
               ELSE IF a = 1 THEN b ELSE IF b = 1 THEN a
               ELSE IF a = -1 THEN -b ELSE IF b = -1 THEN -a
               ELSE IF (a > 0) = (b > 0) THEN PosInfinity ELSE NegInfinity)
    ELSE a * b
\* a / k for a constant k > 0, rounded down; no transition divides a value
\* of the size of Huge
DivBy(a, k) == IF IsNaN(a) THEN NaN ELSE IF IsInfinite(a) \/ IsHuge(a) THEN a ELSE a \div k
\* Math.max and Math.min return NaN when either argument is NaN
MathMax(a, b) == IF IsNaN(a) \/ IsNaN(b) THEN NaN ELSE IF a >= b THEN a ELSE b
MathMin(a, b) == IF IsNaN(a) \/ IsNaN(b) THEN NaN ELSE IF a <= b THEN a ELSE b
\* comparisons with NaN are false
Less(a, b) == ~IsNaN(a) /\ ~IsNaN(b) /\ a < b
Greater(a, b) == ~IsNaN(a) /\ ~IsNaN(b) /\ a > b
LessEq(a, b) == ~IsNaN(a) /\ ~IsNaN(b) /\ a <= b
\* a / b of two doubles, in hundredths
Ratio(a, b) ==
    IF IsNaN(a) \/ IsNaN(b) THEN NaN
    ELSE IF b = 0 THEN (IF a = 0 THEN NaN ELSE IF a > 0 THEN PosInfinity ELSE NegInfinity)
    ELSE IF b > 0 THEN (a * 100) \div b ELSE ((-a) * 100) \div (-b)

\* parameters.<k>: undefined when the key is absent
Param(parameters, k) == IF k \in DOMAIN parameters THEN parameters[k] ELSE NaN
\* truthiness of parameters.<k> for a boolean parameter
Truthy(parameters, k) == IF k \in DOMAIN parameters THEN parameters[k] ELSE FALSE

-----------------------------------------------------------------------------
(* EconomicEngine *)

getInitialMarketState ==
    [ medianPrice |-> 220000,
      priceGrowth |-> 850,
      inventory |-> 420,
      bubbleRisk |-> 3500,
      supplyLevel |-> 10000,
      demandLevel |-> 12000,
      priceToIncomeRatio |-> 380,
      mortgageRate |-> 587,
      unemploymentRate |-> 510,
      housingStarts |-> 2068000,
      foreclosureRate |-> 58,
      timeStep |-> 0 ]

getInitialPolicyState ==
    [ fedRate |-> 225,
      maxLTV |-> 9500,
      capitalRequirements |-> 800,
      stressTesting |-> FALSE,
      regulatoryStrength |-> 5000 ]

load2008CrisisData ==
    << [time |-> 0, events |-> "Low interest rates, Loose lending standards"],
       [time |-> 400, events |-> "Fed starts raising rates, Subprime lending peaks"],
       [time |-> 800, events |-> "Housing prices peak, Early signs of stress"],
       [time |-> 1000, events |-> "Subprime crisis begins, Bear Stearns hedge funds collapse"],
       [time |-> 1200, events |-> "Lehman Brothers fails, Global financial crisis"],
       [time |-> 1400, events |-> "TARP bailouts, Fed cuts rates to zero"],
       [time |-> 1600, events |-> "Housing market bottoms, Recovery begins"] >>

\* The time quantum of one processed action (0.25)
Quantum == 25

\* An engine state and the events a transition pushed
Eng(ms, ps, evs) == [marketState |-> ms, policyState |-> ps, events |-> evs]

\* processHomebuyerAction lowering the demand whatever the action type
processHomebuyerAction_LowersDemand(ms, ps, action) ==
    Eng([ms EXCEPT !.demandLevel = Sub(@, 50)], ps, << >>)

processHomebuyerAction(ms, ps, action) ==
    IF action.actionType = "purchase" THEN
        LET purchasePrice == Param(action.parameters, "price")
            income == Param(action.parameters, "income")
            downPayment == Param(action.parameters, "downPayment")
        IN Eng([ms EXCEPT !.demandLevel = Add(@, 100)], ps,
               << [ eventType |-> "homebuyer_purchase",
                    eventData |-> [ price |-> purchasePrice,
                                    income |-> income,
                                    downPayment |-> downPayment,
                                    priceToIncomeRatio |-> Ratio(purchasePrice, income) ],
                    triggeredBy |-> action.userId,
                    impact |-> [ demandIncrease |-> 100,
                                 marketSignal |-> IF Greater(purchasePrice, ms.medianPrice)
                                                  THEN "bullish" ELSE "bearish" ] ] >>)
    ELSE IF action.actionType = "wait" THEN
        Eng([ms EXCEPT !.demandLevel = Sub(@, 50)], ps,
            << [ eventType |-> "homebuyer_wait",
                 eventData |-> [ reason |-> Param(action.parameters, "reason") ],
                 triggeredBy |-> action.userId,
                 impact |-> [ demandDecrease |-> 50 ] ] >>)
    ELSE Eng(ms, ps, << >>)

\* processInvestorAction reporting quantity * leverage without the 0.1 factor
processInvestorAction_UnscaledRisk(ms, ps, action) ==
    IF action.actionType = "buy_properties" THEN
        LET quantity == Param(action.parameters, "quantity")
            leverage == Param(action.parameters, "leverage")
            demandIncrease == Mul(quantity, 200)
            bubbleRiskIncrease == Mul(Mul(quantity, leverage), 100)
        IN Eng([ms EXCEPT !.demandLevel = Add(@, demandIncrease),
                          !.bubbleRisk = Add(@, bubbleRiskIncrease)], ps,
               << [ eventType |-> "investor_purchase",
                    eventData |-> [ quantity |-> quantity, leverage |-> leverage ],
                    triggeredBy |-> action.userId,
                    impact |-> [ demandIncrease |-> demandIncrease,
                                 bubbleRiskIncrease |-> bubbleRiskIncrease ] ] >>)
    ELSE Eng(ms, ps, << >>)

\* processInvestorAction raising the LTV limit
processInvestorAction_RaisesLTV(ms, ps, action) ==
    Eng(ms, [ps EXCEPT !.maxLTV = 10000], << >>)

processInvestorAction(ms, ps, action) ==
    IF action.actionType = "buy_properties" THEN
        LET quantity == Param(action.parameters, "quantity")
            leverage == Param(action.parameters, "leverage")
            \* quantity * 2 and quantity * leverage * 0.1, in hundredths
            demandIncrease == Mul(quantity, 200)
            bubbleRiskIncrease == Mul(Mul(quantity, leverage), 10)
        IN Eng([ms EXCEPT !.demandLevel = Add(@, demandIncrease),
                          !.bubbleRisk = Add(@, bubbleRiskIncrease)], ps,
               << [ eventType |-> "investor_purchase",
                    eventData |-> [ quantity |-> quantity, leverage |-> leverage ],
                    triggeredBy |-> action.userId,
                    impact |-> [ demandIncrease |-> demandIncrease,
                                 bubbleRiskIncrease |-> bubbleRiskIncrease ] ] >>)
    ELSE IF action.actionType = "securitize" THEN
        Eng([ms EXCEPT !.bubbleRisk = Add(@, 500)], ps,
            << [ eventType |-> "mortgage_securitization",
                 eventData |-> action.parameters,
                 triggeredBy |-> action.userId,
                 impact |-> [ bubbleRiskIncrease |-> 500, marketLiquidity |-> "increased" ] ] >>)
    ELSE Eng(ms, ps, << >>)

\* processRegulatorAction adding rateChange * 10 to the demand, and
\* reporting it so, instead of subtracting it
processRegulatorAction_RaisesDemand(ms, ps, action) ==
    IF action.actionType = "set_fed_rate" THEN
        LET newRate == Param(action.parameters, "rate")
            oldRate == ps.fedRate
            rateChange == Sub(newRate, oldRate)
            mortgageRateChange == DivBy(Mul(rateChange, 12), 10)
            demandRise == Mul(rateChange, 10)
        IN Eng([ms EXCEPT !.mortgageRate = Add(@, mortgageRateChange),
                          !.demandLevel = Add(@, demandRise)],
               [ps EXCEPT !.fedRate = newRate],
               << [ eventType |-> "fed_rate_change",
                    eventData |-> [ oldRate |-> oldRate, newRate |-> newRate,
                                    change |-> rateChange ],
                    triggeredBy |-> action.userId,
                    impact |-> [ mortgageRateChange |-> mortgageRateChange,
                                 demandChange |-> demandRise,
                                 coolingEffect |-> IF Greater(rateChange, 0)
                                                   THEN "moderate" ELSE "stimulative" ] ] >>)
    ELSE Eng(ms, ps, << >>)

processRegulatorAction(ms, ps, action) ==
    IF action.actionType = "set_fed_rate" THEN
        LET newRate == Param(action.parameters, "rate")
            oldRate == ps.fedRate
            rateChange == Sub(newRate, oldRate)
            \* rateChange * 1.2 and rateChange * 10
            mortgageRateChange == DivBy(Mul(rateChange, 12), 10)
            demandDrop == Mul(rateChange, 10)
        IN Eng([ms EXCEPT !.mortgageRate = Add(@, mortgageRateChange),
                          !.demandLevel = Sub(@, demandDrop)],
               [ps EXCEPT !.fedRate = newRate],
               << [ eventType |-> "fed_rate_change",
                    eventData |-> [ oldRate |-> oldRate, newRate |-> newRate,
                                    change |-> rateChange ],
                    triggeredBy |-> action.userId,
                    impact |-> [ mortgageRateChange |-> mortgageRateChange,
                                 demandChange |-> Sub(0, demandDrop),
                                 coolingEffect |-> IF Greater(rateChange, 0)
                                                   THEN "moderate" ELSE "stimulative" ] ] >>)
    ELSE IF action.actionType = "set_ltv_limit" THEN
        LET maxLTV == Param(action.parameters, "maxLTV")
            \* (95 - maxLTV) * 0.5 and ltvImpact * 0.3
            ltvImpact == DivBy(Sub(9500, maxLTV), 2)
            demandReduction == DivBy(Mul(ltvImpact, 3), 10)
        IN Eng([ms EXCEPT !.bubbleRisk = Sub(@, ltvImpact),
                          !.demandLevel = Sub(@, demandReduction)],
               [ps EXCEPT !.maxLTV = maxLTV],
               << [ eventType |-> "ltv_regulation",
                    eventData |-> [ maxLTV |-> maxLTV ],
                    triggeredBy |-> action.userId,
                    impact |-> [ bubbleRiskReduction |-> ltvImpact,
                                 demandReduction |-> demandReduction ] ] >>)
    ELSE IF action.actionType = "require_stress_testing" THEN
        LET enabled == Truthy(action.parameters, "enabled")
        IN IF enabled
           THEN Eng([ms EXCEPT !.bubbleRisk = Sub(@, 1000)],
                    [ps EXCEPT !.stressTesting = enabled],
                    << [ eventType |-> "stress_testing_mandate",
                         eventData |-> [ enabled |-> TRUE ],
                         triggeredBy |-> action.userId,
                         impact |-> [ bubbleRiskReduction |-> 1000,
                                      bankStability |-> "improved" ] ] >>)
           ELSE Eng(ms, [ps EXCEPT !.stressTesting = enabled], << >>)
    ELSE Eng(ms, ps, << >>)

\* a / b rounded down, for b # 0
Quot(a, b) == IF b > 0 THEN a \div b ELSE (-a) \div (-b)

\* (1 / (supplyLevel / demandLevel) - 1) * 20
priceChangeFromSD(supplyLevel, demandLevel) ==
    IF IsNaN(supplyLevel) \/ IsNaN(demandLevel) THEN NaN
    ELSE IF IsInfinite(demandLevel)
         \* supplyLevel / (+-Infinity) is +-0, and 1 / (+-0) is +-Infinity
         THEN (IF (supplyLevel >= 0) = (demandLevel > 0) THEN PosInfinity ELSE NegInfinity)
    ELSE IF demandLevel = 0
         THEN (IF supplyLevel = 0 THEN NaN ELSE -2000)
    ELSE IF supplyLevel = 0
         THEN (IF demandLevel > 0 THEN PosInfinity ELSE NegInfinity)
    ELSE Quot(2000 * (demandLevel - supplyLevel), supplyLevel)

\* Math.max(lo, Math.min(hi, x))
Clamp(lo, hi, x) ==
    IF x = PosInfinity THEN hi
    ELSE IF x = NegInfinity THEN lo
    ELSE MathMax(lo, MathMin(hi, x))

\* priceGrowth * 0.9 + priceChangeFromSD * 0.3 + rateDemandEffect * 0.1
priceGrowthBlend(priceGrowth, fromSD, rateDemandEffect) ==
    IF IsNaN(priceGrowth) \/ IsNaN(fromSD) \/ IsNaN(rateDemandEffect) THEN NaN
    ELSE IF IsFinite(priceGrowth) /\ IsFinite(fromSD) /\ IsFinite(rateDemandEffect)
         THEN (9 * priceGrowth + 3 * fromSD + rateDemandEffect) \div 10
    \* an infinite term decides the sum; opposite infinities give NaN
    ELSE Add(Add(IF IsFinite(priceGrowth) THEN 0 ELSE priceGrowth,
                 IF IsFinite(fromSD) THEN 0 ELSE fromSD),
             IF IsFinite(rateDemandEffect) THEN 0 ELSE rateDemandEffect)

\* updateMarketDynamics assigning the quantum to timeStep instead of adding it
updateMarketDynamics_AssignsTime(ms, ps) ==
    [ms EXCEPT !.timeStep = Quantum]

updateMarketDynamics(ms, ps) ==
    LET timeStep == Add(ms.timeStep, Quantum)
        fromSD == priceChangeFromSD(ms.supplyLevel, ms.demandLevel)
        rateDemandEffect == Mul(Sub(800, ms.mortgageRate), 2)
        priceGrowth == Clamp(-2000, 3000,
                             priceGrowthBlend(ms.priceGrowth, fromSD, rateDemandEffect))
        medianPrice == Add(ms.medianPrice, DivBy(Mul(ms.medianPrice, priceGrowth), 40000))
        priceToIncomeRatio == DivBy(medianPrice, 520)
        bubbleRisk == Clamp(0, 10000,
            Add(Add(Mul(priceToIncomeRatio, 15), Mul(priceGrowth, 2)),
                (IF Less(ms.mortgageRate, 400) THEN 1000 ELSE 0)
                + (IF Greater(ps.maxLTV, 9000) THEN 1500 ELSE 0)
                + (IF ~ps.stressTesting THEN 1000 ELSE 0)))
        inventory == Clamp(50, 1200,
            Add(ms.inventory, DivBy(Sub(ms.supplyLevel, ms.demandLevel), 100)))
        housingStarts == Clamp(500000, 3000000,
            Add(ms.housingStarts, Mul(priceGrowth, 100)))
        foreclosureRate == Clamp(10, 500,
            Add(Add(50, DivBy(Mul(bubbleRisk, 3), 100)),
                DivBy(MathMax(0, Sub(priceToIncomeRatio, 400)), 2)))
        supplyLevel == Add(10000, DivBy(Sub(housingStarts, 1800000), 100))
        demandLevel == MathMax(5000,
            Sub(Sub(12000, Mul(ms.mortgageRate, 5)), Mul(ms.unemploymentRate, 3)))
    IN [ medianPrice |-> medianPrice,
         priceGrowth |-> priceGrowth,
         inventory |-> inventory,
         bubbleRisk |-> bubbleRisk,
         supplyLevel |-> supplyLevel,
         demandLevel |-> demandLevel,
         priceToIncomeRatio |-> priceToIncomeRatio,
         mortgageRate |-> ms.mortgageRate,
         unemploymentRate |-> ms.unemploymentRate,
         housingStarts |-> housingStarts,
         foreclosureRate |-> foreclosureRate,
         timeStep |-> timeStep ]

\* { ...event, sessionId }
WithSession(event, sessionId) ==
    [f \in DOMAIN event \cup {"sessionId"} |-> IF f = "sessionId" THEN sessionId ELSE event[f]]

\* processPlayerAction returning before the dynamics update when the role
\* selects no transition
processPlayerAction_ReturnsEarly(ms, ps, action) ==
    LET known == action.role \in {"homebuyer", "investor", "regulator"}
        acted == IF action.role = "homebuyer" THEN processHomebuyerAction(ms, ps, action)
                 ELSE IF action.role = "investor" THEN processInvestorAction(ms, ps, action)
                 ELSE IF action.role = "regulator" THEN processRegulatorAction(ms, ps, action)
                 ELSE Eng(ms, ps, << >>)
        after == IF known THEN updateMarketDynamics(acted.marketState, acted.policyState)
                 ELSE ms
    IN [ marketState |-> after,
         policyState |-> acted.policyState,
         marketEvents |-> [i \in 1..Len(acted.events) |-> WithSession(acted.events[i], 0)],
         newState |-> after ]

\* The result of processPlayerAction: the engine's state after the call, the
\* events returned (sessionId 0, set by the caller) and the newState copy
processPlayerAction(ms, ps, action) ==
    LET acted == IF action.role = "homebuyer" THEN processHomebuyerAction(ms, ps, action)
                 ELSE IF action.role = "investor" THEN processInvestorAction(ms, ps, action)
                 ELSE IF action.role = "regulator" THEN processRegulatorAction(ms, ps, action)
                 ELSE Eng(ms, ps, << >>)
        after == updateMarketDynamics(acted.marketState, acted.policyState)
    IN [ marketState |-> after,
         policyState |-> acted.policyState,
         marketEvents |-> [i \in 1..Len(acted.events) |-> WithSession(acted.events[i], 0)],
         newState |-> after ]

getMarketState == marketState

getPolicyState == policyState

\* Array.find: the first entry within 2 quarters of the current time step
getHistoricalComparison(ms) ==
    LET near == { i \in 1..Len(load2008CrisisData) :
                    LET diff == Sub(load2008CrisisData[i].time, ms.timeStep)
                    IN Less(diff, 200) /\ Greater(diff, -200) }
    IN [ currentRisk |-> ms.bubbleRisk,
         historicalEvent |->
            IF near = {} THEN "Normal market conditions"
            ELSE load2008CrisisData[CHOOSE i \in near : \A j \in near : i <= j].events ]

\* resetToHistoricalPeriod with the regimes bounded by < instead of <=
resetToHistoricalPeriod_StrictBounds(ms, quarter) ==
    LET q == Mul(quarter, 100)
    IN IF Less(quarter, 4) THEN
           [ms EXCEPT !.timeStep = q,
                      !.bubbleRisk = Add(2000, Mul(q, 5)),
                      !.priceGrowth = Add(1200, Mul(q, 2))]
       ELSE IF Less(quarter, 10) THEN
           [ms EXCEPT !.timeStep = q,
                      !.bubbleRisk = Add(4500, Mul(Sub(q, 400), 8)),
                      !.priceGrowth = MathMax(-1000, Sub(2400, Mul(Sub(q, 400), 6)))]
       ELSE
           [ms EXCEPT !.timeStep = q,
                      !.bubbleRisk = MathMax(1000, Sub(8500, Mul(Sub(q, 1000), 5))),
                      !.priceGrowth = MathMax(-2500, Add(-1500, Mul(Sub(q, 1000), 2)))]

\* quarter is a whole number of quarters
resetToHistoricalPeriod(ms, quarter) ==
    LET q == Mul(quarter, 100)
    IN IF LessEq(quarter, 4) THEN
           [ms EXCEPT !.timeStep = q,
                      !.bubbleRisk = Add(2000, Mul(q, 5)),
                      !.priceGrowth = Add(1200, Mul(q, 2))]
       ELSE IF LessEq(quarter, 10) THEN
           [ms EXCEPT !.timeStep = q,
                      !.bubbleRisk = Add(4500, Mul(Sub(q, 400), 8)),
                      !.priceGrowth = MathMax(-1000, Sub(2400, Mul(Sub(q, 400), 6)))]
       ELSE
           [ms EXCEPT !.timeStep = q,
                      !.bubbleRisk = MathMax(1000, Sub(8500, Mul(Sub(q, 1000), 5))),
                      !.priceGrowth = MathMax(-2500, Add(-1500, Mul(Sub(q, 1000), 2)))]

-----------------------------------------------------------------------------
(* SimulationWebSocketServer: inputs *)

ClientIds == 1..MaxClients

\* undefined userId / role, and undefined sessionId
Undefined == "undefined"
NoSession == 0

Users == {"u1", "u2"}

\* the empty payload {} and the empty parameter map
Empty == [k \in {} |-> 0]

\* payloads of player_action messages; one carries a role and a userId of
\* its own
ActionPayloads ==
    { [actionType |-> "buy_properties", parameters |-> [quantity |-> 5, leverage |-> 80]],
      [actionType |-> "set_fed_rate", parameters |-> [rate |-> 500],
       role |-> "regulator", userId |-> "u2"],
      [actionType |-> "set_fed_rate", parameters |-> Empty],
      [actionType |-> "wait", parameters |-> Empty] }

\* payloads of request_historical_data and reset_simulation messages
QuarterPayloads == { Empty, [quarter |-> -5], [quarter |-> 12] }

\* payloads of join_session messages
JoinPayloads == { [sessionId |-> 1], [sessionId |-> 2], [sessionName |-> "class"], Empty }

\* payloads of switch_role messages
RolePayloads == { [role |-> "investor"], [role |-> "spectator"] }

-----------------------------------------------------------------------------
(* storage *)

\* game_sessions rows left by earlier runs of the server: each user owns one
\* active session, created when the engine was in its initial state; the
\* owners have since switched roles
StoredSessions ==
    << [ id |-> 1, userId |-> "u1", sessionName |-> "s1", currentRole |-> "investor",
         marketState |-> getInitialMarketState, policyState |-> getInitialPolicyState,
         isActive |-> TRUE ],
       [ id |-> 2, userId |-> "u2", sessionName |-> "s2", currentRole |-> "regulator",
         marketState |-> getInitialMarketState, policyState |-> getInitialPolicyState,
         isActive |-> TRUE ] >>

\* sessions is the sequence of rows; the serial id of a row is its index
\* the reads return the list of selected rows; the callers take its first
\* element, undefined when the list is empty
getGameSession(rows, id) ==
    IF id \in 1..Len(rows) THEN <<rows[id]>> ELSE << >>

getUserActiveSession(rows, userId) ==
    LET mine == { i \in 1..Len(rows) : rows[i].userId = userId /\ rows[i].isActive }
    IN IF mine = {} THEN << >>
       ELSE <<rows[CHOOSE i \in mine : \A j \in mine : j <= i]>>

createGameSession(rows, sessionData) ==
    Append(rows, [ id |-> Len(rows) + 1,
                   userId |-> sessionData.userId,
                   sessionName |-> sessionData.sessionName,
                   currentRole |-> sessionData.currentRole,
                   marketState |-> sessionData.marketState,
                   policyState |-> sessionData.policyState,
                   isActive |-> TRUE ])

\* updateGameSession that also marks the row inactive
updateGameSession_Deactivates(rows, id, updates) ==
    IF id \in 1..Len(rows)
    THEN [rows EXCEPT ![id] = [f \in DOMAIN @ |-> IF f \in DOMAIN updates THEN updates[f]
                                                  ELSE IF f = "isActive" THEN FALSE
                                                  ELSE @[f]]]
    ELSE rows

\* updates is a partial row; a missing id updates nothing
updateGameSession(rows, id, updates) ==
    IF id \in 1..Len(rows)
    THEN [rows EXCEPT ![id] = [f \in DOMAIN @ |-> IF f \in DOMAIN updates THEN updates[f] ELSE @[f]]]
    ELSE rows

-----------------------------------------------------------------------------
(* SimulationWebSocketServer: connection registry and sends *)

NewClient == [status |-> "new", userId |-> Undefined, sessionId |-> NoSession, role |-> Undefined]

IsOpen(cl, c) == cl[c].status = "open"

\* a delivered message: src is the receipt number of the message whose handler
\* sent it (0 for the greeting and the ticker), to the session it was addressed to
Msg(type, payload, src) == [type |-> type, payload |-> payload, src |-> src, to |-> NoSession]

sendMessage(ob, cl, clientId, message) ==
    IF IsOpen(cl, clientId) THEN [ob EXCEPT ![clientId] = Append(@, message)] ELSE ob

\* sendError sending the error to every open connection
sendError_ToAll(ob, cl, clientId, error, src) ==
    [d \in ClientIds |->
        IF IsOpen(cl, d) THEN Append(ob[d], Msg("error", [message |-> error], src)) ELSE ob[d]]

sendError(ob, cl, clientId, error, src) ==
    sendMessage(ob, cl, clientId, Msg("error", [message |-> error], src))

broadcast(ob, cl, message) ==
    [d \in ClientIds |-> IF IsOpen(cl, d) THEN Append(ob[d], message) ELSE ob[d]]

\* broadcastToSession without the test of the connection's session
broadcastToSession_ToAll(ob, cl, sessionId, message, excludeClientId) ==
    [d \in ClientIds |->
        IF d # excludeClientId /\ IsOpen(cl, d)
        THEN Append(ob[d], [message EXCEPT !.to = sessionId])
        ELSE ob[d]]

\* excludeClientId is 0 when no connection is excluded
broadcastToSession(ob, cl, sessionId, message, excludeClientId) ==
    [d \in ClientIds |->
        IF cl[d].sessionId = sessionId /\ d # excludeClientId /\ IsOpen(cl, d)
        THEN Append(ob[d], [message EXCEPT !.to = sessionId])
        ELSE ob[d]]

sendMarketUpdate(ob, cl, clientId) ==
    sendMessage(ob, cl, clientId,
                Msg("market_update",
                    [marketState |-> getMarketState, policyState |-> getPolicyState], 0))

-----------------------------------------------------------------------------
(* Initial state: the server has been constructed, nobody is connected *)

Init ==
    /\ marketState = getInitialMarketState
    /\ policyState = getInitialPolicyState
    /\ clients = [c \in ClientIds |-> NewClient]
    /\ sessions = StoredSessions
    /\ decisions = << >>
    /\ marketEvents = << >>
    /\ handlers = Empty
    /\ outbox = [c \in ClientIds |-> << >>]
    /\ received = << >>
    /\ engineCalls = [actions |-> 0, resets |-> 0]

\* the receipt number the next message gets
nextSeq == Len(received) + 1

\* messages arrive on open connections only
CanReceive(c) == IsOpen(clients, c)

Receive(c, type) == received' = Append(received, [client |-> c, type |-> type])

\* wss.on('connection'): connection ids are handed out in order
Connect(c) ==
    /\ clients[c].status = "new"
    /\ \A d \in ClientIds : d < c => clients[d].status # "new"
    /\ clients' = [clients EXCEPT ![c].status = "open"]
    /\ outbox' = sendMarketUpdate(outbox, clients', c)
    /\ UNCHANGED <<marketState, policyState, sessions, decisions, marketEvents,
                   handlers, received, engineCalls>>

\* ws.on('close')
Close(c) ==
    /\ IsOpen(clients, c)
    /\ clients' = [clients EXCEPT ![c].status = "closed"]
    /\ UNCHANGED <<marketState, policyState, sessions, decisions, marketEvents,
                   handlers, outbox, received, engineCalls>>

\* the setInterval callback of startMarketUpdates
Tick ==
    /\ Receive(0, "tick")
    /\ outbox' = broadcast(outbox, clients,
                           Msg("periodic_market_update",
                               [marketState |-> getMarketState, policyState |-> getPolicyState], 0))
    /\ UNCHANGED <<marketState, policyState, clients, sessions, decisions, marketEvents,
                   handlers, engineCalls>>

\* a message that does not parse, or whose type is missing or unknown
HandleBadMessage(c, type) ==
    /\ CanReceive(c)
    /\ Receive(c, type)
    /\ outbox' = sendError(outbox, clients, c,
                           IF type = "unparseable" THEN "Invalid message format"
                           ELSE "Unknown message type", nextSeq)
    /\ UNCHANGED <<marketState, policyState, clients, sessions, decisions, marketEvents,
                   handlers, engineCalls>>

\* request_historical_data: no await, the handler runs to its end
handleHistoricalDataRequest(c, payload) ==
    /\ CanReceive(c)
    /\ Receive(c, "request_historical_data")
    /\ marketState' = IF "quarter" \in DOMAIN payload
                      THEN resetToHistoricalPeriod(marketState, payload.quarter)
                      ELSE marketState
    /\ engineCalls' = IF "quarter" \in DOMAIN payload
                      THEN [engineCalls EXCEPT !.resets = @ + 1] ELSE engineCalls
    /\ outbox' = sendMessage(outbox, clients, c,
                             Msg("historical_data",
                                 [comparison |-> getHistoricalComparison(marketState'),
                                  marketState |-> marketState'], nextSeq))
    /\ UNCHANGED <<policyState, clients, sessions, decisions, marketEvents, handlers>>

-----------------------------------------------------------------------------
(* SimulationWebSocketServer: handlers that await the storage.  Each runs    *)
(* from the receipt of its message to its first await; the storage call it   *)
(* awaits is kept, with the arguments evaluated at the call, in the handler  *)
(* record until the call settles.                                            *)

Handler(c, type, payload, op, args, result) ==
    [ seq |-> nextSeq, client |-> c, type |-> type, payload |-> payload,
      call |-> [op |-> op, args |-> args], result |-> result, evIdx |-> 0 ]

Suspend(h) == handlers @@ (h.seq :> h)

Finish(n) == [s \in DOMAIN handlers \ {n} |-> handlers[s]]

handleAuthentication(c, payload) ==
    /\ CanReceive(c)
    /\ Receive(c, "authenticate")
    /\ clients' = [clients EXCEPT ![c].userId = payload.userId]
    /\ handlers' = Suspend(
            Handler(c, "authenticate", payload, "getUserActiveSession", payload.userId, Empty))
    /\ UNCHANGED <<marketState, policyState, sessions, decisions, marketEvents,
                   outbox, engineCalls>>

handleJoinSession(c, payload) ==
    /\ CanReceive(c)
    /\ Receive(c, "join_session")
    /\ IF clients[c].userId = Undefined THEN
           /\ outbox' = sendError(outbox, clients, c, "Must authenticate first", nextSeq)
           /\ UNCHANGED handlers
       ELSE IF "sessionId" \in DOMAIN payload THEN
           /\ handlers' = Suspend(
                   Handler(c, "join_session", payload, "getGameSession", payload.sessionId, Empty))
           /\ UNCHANGED outbox
       ELSE IF "sessionName" \in DOMAIN payload THEN
           /\ handlers' = Suspend(
                   Handler(c, "join_session", payload, "createGameSession",
                           [ userId |-> clients[c].userId,
                             sessionName |-> payload.sessionName,
                             currentRole |-> "homebuyer",
                             marketState |-> getMarketState,
                             policyState |-> getPolicyState ], Empty))
           /\ UNCHANGED outbox
       ELSE
           /\ outbox' = sendError(outbox, clients, c, "Session not found", nextSeq)
           /\ UNCHANGED handlers
    /\ UNCHANGED <<marketState, policyState, clients, sessions, decisions, marketEvents,
                   engineCalls>>

\* { ...payload, userId, role }: the spread copies the payload's fields and
\* the two properties written after it replace the payload's own
WithBinding(payload, userId, role) ==
    [f \in DOMAIN payload \cup {"userId", "role"} |->
        IF f = "userId" THEN userId ELSE IF f = "role" THEN role ELSE payload[f]]

handlePlayerAction(c, payload) ==
    /\ CanReceive(c)
    /\ Receive(c, "player_action")
    /\ IF clients[c].userId = Undefined \/ clients[c].sessionId = NoSession THEN
           /\ outbox' = sendError(outbox, clients, c, "Must join a session first", nextSeq)
           /\ UNCHANGED <<marketState, policyState, handlers, engineCalls>>
       ELSE
           LET result == processPlayerAction(marketState, policyState,
                             WithBinding(payload, clients[c].userId, clients[c].role))
           IN /\ marketState' = result.marketState
              /\ policyState' = result.policyState
              /\ engineCalls' = [engineCalls EXCEPT !.actions = @ + 1]
              /\ handlers' = Suspend(
                      Handler(c, "player_action", payload, "recordDecision",
                              [ sessionId |-> clients[c].sessionId,
                                userId |-> clients[c].userId,
                                role |-> clients[c].role,
                                decisionType |-> payload.actionType,
                                decisionData |-> payload.parameters,
                                marketContext |-> result.marketState ],
                              \* applied is kept for observation only: the
                              \* session bound and the PolicyState at the call
                              [ marketEvents |-> result.marketEvents,
                                newState |-> result.newState,
                                applied |-> [ sessionId |-> clients[c].sessionId,
                                              policyState |-> result.policyState ] ]))
              /\ UNCHANGED outbox
    /\ UNCHANGED <<clients, sessions, decisions, marketEvents>>

handleRoleSwitch(c, payload) ==
    /\ CanReceive(c)
    /\ Receive(c, "switch_role")
    /\ IF clients[c].sessionId = NoSession THEN
           /\ outbox' = sendError(outbox, clients, c, "Must join a session first", nextSeq)
           /\ UNCHANGED <<clients, handlers>>
       ELSE
           /\ clients' = [clients EXCEPT ![c].role = payload.role]
           /\ handlers' = Suspend(
                   Handler(c, "switch_role", payload, "updateGameSession",
                           [ id |-> clients[c].sessionId,
                             updates |-> [currentRole |-> payload.role] ], Empty))
           /\ UNCHANGED outbox
    /\ UNCHANGED <<marketState, policyState, sessions, decisions, marketEvents, engineCalls>>

\* handleSimulationReset resetting the engine before it looks at the
\* connection's session
handleSimulationReset_ResetsFirst(c, payload) ==
    /\ CanReceive(c)
    /\ Receive(c, "reset_simulation")
    /\ marketState' = IF "quarter" \in DOMAIN payload
                      THEN resetToHistoricalPeriod(marketState, payload.quarter)
                      ELSE marketState
    /\ engineCalls' = IF "quarter" \in DOMAIN payload
                      THEN [engineCalls EXCEPT !.resets = @ + 1] ELSE engineCalls
    /\ IF clients[c].sessionId = NoSession THEN
           /\ outbox' = sendError(outbox, clients, c, "Must join a session first", nextSeq)
           /\ UNCHANGED handlers
       ELSE
           /\ handlers' = Suspend(
                   Handler(c, "reset_simulation", payload, "updateGameSession",
                           [ id |-> clients[c].sessionId,
                             updates |-> [ marketState |-> marketState',
                                           policyState |-> getPolicyState ] ], Empty))
           /\ UNCHANGED outbox
    /\ UNCHANGED <<policyState, clients, sessions, decisions, marketEvents>>

handleSimulationReset(c, payload) ==
    /\ CanReceive(c)
    /\ Receive(c, "reset_simulation")
    /\ IF clients[c].sessionId = NoSession THEN
           /\ outbox' = sendError(outbox, clients, c, "Must join a session first", nextSeq)
           /\ UNCHANGED <<marketState, handlers, engineCalls>>
       ELSE
           /\ marketState' = IF "quarter" \in DOMAIN payload
                             THEN resetToHistoricalPeriod(marketState, payload.quarter)
                             ELSE marketState
           /\ engineCalls' = IF "quarter" \in DOMAIN payload
                             THEN [engineCalls EXCEPT !.resets = @ + 1] ELSE engineCalls
           /\ handlers' = Suspend(
                   Handler(c, "reset_simulation", payload, "updateGameSession",
                           [ id |-> clients[c].sessionId,
                             updates |-> [ marketState |-> marketState',
                                           policyState |-> getPolicyState ] ], Empty))
           /\ UNCHANGED outbox
    /\ UNCHANGED <<policyState, clients, sessions, decisions, marketEvents>>

\* The storage call a handler awaits settles, and the handler runs on to its
\* next await or to its end.

\* handleAuthentication after getUserActiveSession
AuthenticationResumes(n) ==
    /\ n \in DOMAIN handlers
    /\ handlers[n].type = "authenticate"
    /\ LET h == handlers[n]
           c == h.client
           found == getUserActiveSession(sessions, h.call.args)
       IN /\ clients' = IF found # << >>
                        THEN [clients EXCEPT ![c].sessionId = found[1].id,
                                             ![c].role = found[1].currentRole]
                        ELSE clients
          /\ outbox' = sendMessage(outbox, clients', c,
                                   Msg("authentication_success",
                                       [ userId |-> h.payload.userId,
                                         sessionId |-> clients'[c].sessionId,
                                         role |-> clients'[c].role ], n))
    /\ handlers' = Finish(n)
    /\ UNCHANGED <<marketState, policyState, sessions, decisions, marketEvents,
                   received, engineCalls>>

\* handleJoinSession after getGameSession or createGameSession
JoinSessionResumes(n) ==
    /\ n \in DOMAIN handlers
    /\ handlers[n].type = "join_session"
    /\ LET h == handlers[n]
           c == h.client
           created == h.call.op = "createGameSession"
           rows == IF created THEN createGameSession(sessions, h.call.args) ELSE sessions
           found == IF created THEN <<rows[Len(rows)]>> ELSE getGameSession(sessions, h.call.args)
       IN /\ sessions' = rows
          /\ IF found = << >> THEN
                 /\ outbox' = sendError(outbox, clients, c, "Session not found", n)
                 /\ UNCHANGED clients
             ELSE
                 LET session == found[1] IN
                 /\ clients' = [clients EXCEPT ![c].sessionId = session.id,
                                               ![c].role = session.currentRole]
                 /\ outbox' = broadcastToSession(
                        sendMessage(outbox, clients', c,
                                    Msg("session_joined",
                                        [ session |-> session,
                                          marketState |-> getMarketState,
                                          policyState |-> getPolicyState ], n)),
                        clients', session.id,
                        Msg("player_joined",
                            [userId |-> clients'[c].userId, role |-> clients'[c].role], n),
                        c)
    /\ handlers' = Finish(n)
    /\ UNCHANGED <<marketState, policyState, decisions, marketEvents, received, engineCalls>>

\* handlePlayerAction after recordDecision or recordMarketEvent: the row is
\* inserted, and the next event is recorded or the session row updated
PlayerActionResumes(n) ==
    /\ n \in DOMAIN handlers
    /\ handlers[n].type = "player_action"
    /\ handlers[n].call.op \in {"recordDecision", "recordMarketEvent"}
    /\ LET h == handlers[n]
           c == h.client
           events == h.result.marketEvents
       IN /\ IF h.call.op = "recordDecision"
             THEN decisions' = Append(decisions, h.call.args) /\ UNCHANGED marketEvents
             ELSE marketEvents' = Append(marketEvents, h.call.args) /\ UNCHANGED decisions
          /\ handlers' = [handlers EXCEPT ![n] =
                IF h.evIdx < Len(events)
                THEN [h EXCEPT !.call = [ op |-> "recordMarketEvent",
                                          args |-> WithSession(events[h.evIdx + 1],
                                                               clients[c].sessionId) ],
                               !.evIdx = @ + 1]
                ELSE [h EXCEPT !.call = [ op |-> "updateGameSession",
                                          args |-> [ id |-> clients[c].sessionId,
                                                     updates |-> [ marketState |-> h.result.newState,
                                                                   policyState |-> getPolicyState ] ] ]]]
    /\ UNCHANGED <<marketState, policyState, clients, sessions, outbox, received, engineCalls>>

\* handlePlayerAction after updateGameSession: the broadcast and the
\* historical comparison
PlayerActionCompletes(n) ==
    /\ n \in DOMAIN handlers
    /\ handlers[n].type = "player_action"
    /\ handlers[n].call.op = "updateGameSession"
    /\ LET h == handlers[n]
           c == h.client
       IN /\ sessions' = updateGameSession(sessions, h.call.args.id, h.call.args.updates)
          /\ outbox' = sendMessage(
                 broadcastToSession(outbox, clients, clients[c].sessionId,
                                    Msg("market_update",
                                        [ marketState |-> h.result.newState,
                                          policyState |-> getPolicyState,
                                          events |-> h.result.marketEvents,
                                          triggeredBy |-> clients[c].userId ], n),
                                    0),
                 clients, c,
                 Msg("historical_comparison", getHistoricalComparison(marketState), n))
    /\ handlers' = Finish(n)
    /\ UNCHANGED <<marketState, policyState, clients, decisions, marketEvents,
                   received, engineCalls>>

\* handleRoleSwitch after updateGameSession
RoleSwitchResumes(n) ==
    /\ n \in DOMAIN handlers
    /\ handlers[n].type = "switch_role"
    /\ LET h == handlers[n]
           c == h.client
       IN /\ sessions' = updateGameSession(sessions, h.call.args.id, h.call.args.updates)
          /\ outbox' = broadcastToSession(
                 sendMessage(outbox, clients, c,
                             Msg("role_switched", [role |-> h.payload.role], n)),
                 clients, clients[c].sessionId,
                 Msg("player_role_changed",
                     [userId |-> clients[c].userId, role |-> h.payload.role], n),
                 c)
    /\ handlers' = Finish(n)
    /\ UNCHANGED <<marketState, policyState, clients, decisions, marketEvents,
                   received, engineCalls>>

\* handleSimulationReset after updateGameSession
SimulationResetResumes(n) ==
    /\ n \in DOMAIN handlers
    /\ handlers[n].type = "reset_simulation"
    /\ LET h == handlers[n]
           c == h.client
       IN /\ sessions' = updateGameSession(sessions, h.call.args.id, h.call.args.updates)
          /\ outbox' = broadcastToSession(outbox, clients, clients[c].sessionId,
                 Msg("simulation_reset",
                     [ marketState |-> getMarketState,
                       policyState |-> getPolicyState,
                       quarter |-> Param(h.payload, "quarter") ], n),
                 0)
    /\ handlers' = Finish(n)
    /\ UNCHANGED <<marketState, policyState, clients, decisions, marketEvents,
                   received, engineCalls>>

\* The storage call a handler awaits is rejected: the exception leaves the
\* handler and is caught in the ws.on('message') callback
StorageFails(n) ==
    /\ n \in DOMAIN handlers
    /\ outbox' = sendError(outbox, clients, handlers[n].client, "Invalid message format", n)
    /\ handlers' = Finish(n)
    /\ UNCHANGED <<marketState, policyState, clients, sessions, decisions, marketEvents,
                   received, engineCalls>>

-----------------------------------------------------------------------------
(* The server *)

Seqs == DOMAIN handlers

Budget == Len(received) < MaxMessages

Next ==
    \/ \E c \in 1..MaxConnections : Connect(c)
    \/ \E c \in ClientIds : Close(c)
    \/ Budget /\ Tick
    \/ \E c \in ClientIds, type \in {"unparseable", "unknown"} :
          Budget /\ HandleBadMessage(c, type)
    \/ \E c \in ClientIds, u \in Users : Budget /\ handleAuthentication(c, [userId |-> u])
    \/ \E c \in ClientIds, payload \in JoinPayloads : Budget /\ handleJoinSession(c, payload)
    \/ \E c \in ClientIds, payload \in ActionPayloads : Budget /\ handlePlayerAction(c, payload)
    \/ \E c \in ClientIds, payload \in RolePayloads : Budget /\ handleRoleSwitch(c, payload)
    \/ \E c \in ClientIds, payload \in QuarterPayloads :
          Budget /\ handleHistoricalDataRequest(c, payload)
    \/ \E c \in ClientIds, payload \in QuarterPayloads :
          Budget /\ handleSimulationReset(c, payload)
    \/ \E n \in Seqs : AuthenticationResumes(n)
    \/ \E n \in Seqs : JoinSessionResumes(n)
    \/ \E n \in Seqs : PlayerActionResumes(n)
    \/ \E n \in Seqs : PlayerActionCompletes(n)
    \/ \E n \in Seqs : RoleSwitchResumes(n)
    \/ \E n \in Seqs : SimulationResetResumes(n)
    \/ \E n \in Seqs : StorageFails(n)

Spec == Init /\ [][Next]_vars

-----------------------------------------------------------------------------------------------------------------------------------------------------
(* Overlapping player actions: connections of one user, who authenticate    *)
(* once each and submit player actions whose storage calls all succeed.      *)

OrderingPayloads ==
    { [actionType |-> "buy_properties", parameters |-> [quantity |-> 5, leverage |-> 80]],
      [actionType |-> "hold", parameters |-> Empty] }

ActionsReceived == Cardinality({ i \in 1..Len(received) : received[i].type = "player_action" })

OrderingNext ==
    \/ \E c \in ClientIds : Connect(c)
    \/ \E c \in ClientIds :
          clients[c].userId = Undefined /\ handleAuthentication(c, [userId |-> "u1"])
    \/ \E c \in ClientIds, payload \in OrderingPayloads :
          /\ ActionsReceived < MaxOverlappingActions
          /\ clients[c].sessionId # NoSession
          /\ handlePlayerAction(c, payload)
    \/ \E n \in Seqs : AuthenticationResumes(n)
    \/ \E n \in Seqs : PlayerActionResumes(n)
    \/ \E n \in Seqs : PlayerActionCompletes(n)

OrderingSpec == Init /\ [][OrderingNext]_vars

-----
(* The engine on its own: a caller that owns an EconomicEngine and calls     *)
(* processPlayerAction and resetToHistoricalPeriod on it, with every role    *)
(* and action type the engine distinguishes.                                 *)

EngineActions ==
    { [role |-> "homebuyer", actionType |-> "purchase",
       parameters |-> [price |-> 300000, income |-> 75000, downPayment |-> 10]],
      [role |-> "homebuyer", actionType |-> "wait", parameters |-> Empty],
      [role |-> "homebuyer", actionType |-> "hold", parameters |-> Empty],
      [role |-> "investor", actionType |-> "buy_properties",
       parameters |-> [quantity |-> 5, leverage |-> 80]],
      [role |-> "investor", actionType |-> "securitize", parameters |-> Empty],
      [role |-> "investor", actionType |-> "hold", parameters |-> Empty],
      [role |-> "regulator", actionType |-> "set_fed_rate", parameters |-> [rate |-> 500]],
      [role |-> "regulator", actionType |-> "set_fed_rate", parameters |-> [rate |-> 100]],
      [role |-> "regulator", actionType |-> "set_fed_rate", parameters |-> [rate |-> Huge]],
      [role |-> "regulator", actionType |-> "set_ltv_limit", parameters |-> [maxLTV |-> 8000]],
      [role |-> "regulator", actionType |-> "require_stress_testing",
       parameters |-> [enabled |-> TRUE]],
      [role |-> "regulator", actionType |-> "require_stress_testing",
       parameters |-> [enabled |-> FALSE]],
      [role |-> "regulator", actionType |-> "hold", parameters |-> Empty],
      [role |-> "spectator", actionType |-> "purchase", parameters |-> Empty] }

EngineQuarters == {-5, 4, 9, 10, 12, 26}

EngineBudget == engineCalls.actions + engineCalls.resets < MaxEngineCalls

EngineProcessPlayerAction(action) ==
    /\ LET result == processPlayerAction(marketState, policyState,
                         [ userId |-> "u1", role |-> action.role,
                           actionType |-> action.actionType,
                           parameters |-> action.parameters ])
       IN /\ marketState' = result.marketState
          /\ policyState' = result.policyState
    /\ engineCalls' = [engineCalls EXCEPT !.actions = @ + 1]
    /\ UNCHANGED serverVars

EngineResetToHistoricalPeriod(quarter) ==
    /\ marketState' = resetToHistoricalPeriod(marketState, quarter)
    /\ engineCalls' = [engineCalls EXCEPT !.resets = @ + 1]
    /\ UNCHANGED <<policyState, serverVars>>

EngineNext ==
    \/ \E action \in EngineActions : EngineBudget /\ EngineProcessPlayerAction(action)
    \/ \E quarter \in EngineQuarters : EngineBudget /\ EngineResetToHistoricalPeriod(quarter)

EngineSpec == Init /\ [][EngineNext]_vars

-----------------------------------------------------------------------------
(* Claims *)

\* C4 (Clamping): in every reachable state, as getMarketState shows it,
\* 0 <= bubbleRisk <= 100, 0.5 <= inventory <= 12,
\* 500000 <= housingStarts <= 3000000, 0.1 <= foreclosureRate <= 5 and
\* demandLevel >= 50.
C4_Clamping ==
    /\ LessEq(0, getMarketState.bubbleRisk) /\ LessEq(getMarketState.bubbleRisk, 10000)
    /\ LessEq(50, getMarketState.inventory) /\ LessEq(getMarketState.inventory, 1200)
    /\ LessEq(500000, getMarketState.housingStarts)
    /\ LessEq(getMarketState.housingStarts, 3000000)
    /\ LessEq(10, getMarketState.foreclosureRate)
    /\ LessEq(getMarketState.foreclosureRate, 500)
    /\ LessEq(5000, getMarketState.demandLevel)

\* C5 (Monotonic time): from a fresh engine and with no historical reset so
\* far, after N calls of processPlayerAction, of any role and action type,
\* timeStep is exactly 0.25 x N.
C5_TimeStepCountsActions ==
    engineCalls.resets = 0 => marketState.timeStep = Quantum * engineCalls.actions

\* C5 witness: several actions have been processed and no reset made
C5_Witness ==
    /\ engineCalls.resets = 0
    /\ engineCalls.actions >= 2
    /\ marketState.timeStep = Quantum * engineCalls.actions

\* The state a message to connection d carries: session_joined,
\* market_update and periodic_market_update all read the one engine
ServedTo(d) == [marketState |-> getMarketState, policyState |-> getPolicyState]

\* connection c's player_action, reset_simulation or request_historical_data
\* is received and runs to its first await
ActsOnEngine(c) ==
    \/ \E payload \in ActionPayloads : handlePlayerAction(c, payload)
    \/ \E payload \in QuarterPayloads : handleSimulationReset(c, payload)
    \/ \E payload \in QuarterPayloads : handleHistoricalDataRequest(c, payload)

\* C1 (Isolation): a player_action, reset_simulation or
\* request_historical_data processed for a connection of session A never
\* changes the MarketState or PolicyState served to the connections of
\* another session B.
C1_Isolation ==
    [][ \A c, d \in ClientIds :
          ( /\ ActsOnEngine(c)
            /\ clients[c].sessionId # NoSession
            /\ IsOpen(clients, d)
            /\ clients[d].sessionId # NoSession
            /\ clients[d].sessionId # clients[c].sessionId )
          => ServedTo(d)' = ServedTo(d) ]_vars

\* the market_update broadcasts of player actions among the messages of d
ActionUpdates(d) ==
    { i \in 1..Len(outbox[d]) :
        outbox[d][i].type = "market_update" /\ outbox[d][i].src # 0 }

\* C2 (Broadcast ordering): when two player actions of one session come from
\* two different connections, every other connection of the session receives
\* their two market_update broadcasts in the order in which the engine
\* applied the actions (the order of receipt: each action is applied when its
\* message is received).
C2_BroadcastOrder ==
    \A d \in ClientIds : \A i, j \in ActionUpdates(d) :
        LET mi == outbox[d][i]
            mj == outbox[d][j]
        IN ( /\ mi.src < mj.src
             /\ mi.to = mj.to
             /\ received[mi.src].client # received[mj.src].client
             /\ d \notin {received[mi.src].client, received[mj.src].client} )
           => i < j

\* the session a suspended player_action handler is persisting for
PersistingFor(h) ==
    IF h.call.op = "updateGameSession" THEN h.call.args.id ELSE h.call.args.sessionId

\* C3 (Per-session serialization): the engine never applies an action of a
\* session while the persistence calls of an earlier action of that session
\* are pending; an action is applied when its message is received, so no two
\* player_action handlers of one session are ever suspended together.
C3_Serialized ==
    \A n1, n2 \in DOMAIN handlers :
        ( /\ n1 # n2
          /\ handlers[n1].type = "player_action"
          /\ handlers[n2].type = "player_action" )
        => PersistingFor(handlers[n1]) # PersistingFor(handlers[n2])

\* C6 (timeStep never decreases): no step of the server lowers timeStep.
C6_TimeStepNeverDecreases ==
    [][ marketState'.timeStep >= marketState.timeStep ]_vars

\* a request_historical_data or reset_simulation that carries a quarter
HistoricalReset ==
    \E c \in ClientIds, payload \in QuarterPayloads :
        /\ "quarter" \in DOMAIN payload
        /\ \/ handleHistoricalDataRequest(c, payload)
           \/ handleSimulationReset(c, payload)

\* C6 as amended: no step of the server lowers timeStep, except a
\* request_historical_data or reset_simulation that carries a quarter, which
\* sets timeStep to that quarter.
C6_TimeStepDecreasesOnlyOnReset ==
    [][ HistoricalReset \/ marketState'.timeStep >= marketState.timeStep ]_vars

\* C6 witness: time has advanced by player actions after a historical reset
C6_Witness ==
    /\ engineCalls.resets >= 1
    /\ engineCalls.actions >= 1
    /\ \E i, j \in 1..Len(received) :
          /\ i < j
          /\ received[i].type \in {"request_historical_data", "reset_simulation"}
          /\ received[j].type = "player_action"

Delivered(d) == SubSeq(outbox'[d], Len(outbox[d]) + 1, Len(outbox'[d]))

UpdatesDelivered(d) ==
    { i \in 1..Len(Delivered(d)) : Delivered(d)[i].type = "market_update" }

\* C9 (Fan-out): when the player_action handler n of a connection completes
\* without storage error, with S the session the connection is bound to at
\* that time, each open connection bound to S (the acting one included)
\* receives exactly one market_update, every other connection receives none,
\* and all the copies are the same message, carrying the newState and the
\* events the engine returned for the action; an investor_purchase event
\* reports bubbleRiskIncrease = quantity x leverage x 0.1.
C9_FanOut ==
    [][ \A n \in DOMAIN handlers : PlayerActionCompletes(n) =>
          LET h == handlers[n]
              S == clients[h.client].sessionId
          IN /\ \A d \in ClientIds :
                   IF IsOpen(clients, d) /\ clients[d].sessionId = S
                   THEN Cardinality(UpdatesDelivered(d)) = 1
                   ELSE UpdatesDelivered(d) = {}
             /\ \A d1, d2 \in ClientIds :
                   \A i1 \in UpdatesDelivered(d1), i2 \in UpdatesDelivered(d2) :
                       Delivered(d1)[i1] = Delivered(d2)[i2]
             /\ \A d \in ClientIds : \A i \in UpdatesDelivered(d) :
                   LET m == Delivered(d)[i].payload
                   IN /\ m.marketState = h.result.newState
                      /\ m.events = h.result.marketEvents
                      /\ \A k \in 1..Len(m.events) :
                            m.events[k].eventType = "investor_purchase" =>
                                m.events[k].impact.bubbleRiskIncrease =
                                    m.events[k].eventData.quantity
                                    * m.events[k].eventData.leverage * 10 ]_vars

\* C9 witness: two connections have each received the market_update of one
\* investor purchase
C9_Witness ==
    \E d1, d2 \in ClientIds :
        /\ d1 # d2
        /\ \E i1 \in ActionUpdates(d1), i2 \in ActionUpdates(d2) :
              /\ outbox[d1][i1] = outbox[d2][i2]
              /\ Len(outbox[d1][i1].payload.events) = 1
              /\ outbox[d1][i1].payload.events[1].eventType = "investor_purchase"
              /\ outbox[d1][i1].payload.events[1].impact.bubbleRiskIncrease = 4000

\* C10 (Storage failure does not suppress the broadcast): when a storage
\* call of a player_action handler fails, the engine state keeps the
\* action's effect, the market_update of the action is still broadcast to
\* the session, and an error is sent to the acting connection.
C10_BroadcastDespiteStorageFailure ==
    [][ \A n \in DOMAIN handlers :
          (handlers[n].type = "player_action" /\ StorageFails(n)) =>
          LET c == handlers[n].client
          IN /\ marketState' = marketState
             /\ policyState' = policyState
             /\ \A d \in ClientIds :
                   (IsOpen(clients, d) /\ clients[d].sessionId = clients[c].sessionId)
                   => \E i \in UpdatesDelivered(d) : Delivered(d)[i].src = n
             /\ IsOpen(clients, c) =>
                   \E i \in 1..Len(Delivered(c)) : Delivered(c)[i].type = "error" ]_vars

\* the parameters a transition reads as numbers
RequiredParameters(role, actionType) ==
    IF role = "homebuyer" /\ actionType = "purchase" THEN {"price", "income", "downPayment"}
    ELSE IF role = "investor" /\ actionType = "buy_properties" THEN {"quantity", "leverage"}
    ELSE IF role = "regulator" /\ actionType = "set_fed_rate" THEN {"rate"}
    ELSE IF role = "regulator" /\ actionType = "set_ltv_limit" THEN {"maxLTV"}
    ELSE {}

\* connection c is bound to a user and a session
Bound(c) == clients[c].userId # Undefined /\ clients[c].sessionId # NoSession

\* C11 (Parameter validation): a player_action of a bound connection, for a
\* recognized role and actionType, that lacks a required parameter is
\* answered with an error to the sender and leaves MarketState and
\* PolicyState unchanged.
C11_MissingParameterRejected ==
    [][ \A c \in ClientIds, payload \in ActionPayloads :
          ( /\ Bound(c)
            /\ \E k \in RequiredParameters(clients[c].role, payload.actionType) :
                  k \notin DOMAIN payload.parameters
            /\ handlePlayerAction(c, payload) )
          => /\ marketState' = marketState
             /\ policyState' = policyState
             /\ \E i \in 1..Len(Delivered(c)) : Delivered(c)[i].type = "error" ]_vars

\* C12 (Numeric stability): after any sequence of actions whose parameters
\* are all finite numbers (every parameter the engine's caller supplies
\* here is one), every MarketState field is a finite number.
C12_FiniteMarketState ==
    \A f \in DOMAIN marketState : IsFinite(marketState[f])

\* connection c's player_action, switch_role or reset_simulation is received
\* and runs to its first await or to its end
RequiresSession(c) ==
    \/ \E payload \in ActionPayloads : handlePlayerAction(c, payload)
    \/ \E payload \in RolePayloads : handleRoleSwitch(c, payload)
    \/ \E payload \in QuarterPayloads : handleSimulationReset(c, payload)

\* the messages of type "error" among those a step delivers to connection d
ErrorsDelivered(d) ==
    { i \in 1..Len(Delivered(d)) : Delivered(d)[i].type = "error" }

\* C13 (Session required): a player_action, switch_role or reset_simulation
\* received on a connection with no bound session is answered with one
\* error message to that connection and nothing to any other, and changes
\* neither MarketState, PolicyState, the bindings of the connections nor a
\* persisted record; no storage call is left pending.
C13_SessionRequired ==
    [][ \A c \in ClientIds :
          (clients[c].sessionId = NoSession /\ RequiresSession(c))
          => /\ Len(Delivered(c)) = 1
             /\ ErrorsDelivered(c) = {1}
             /\ \A d \in ClientIds \ {c} : outbox'[d] = outbox[d]
             /\ UNCHANGED <<marketState, policyState, clients, sessions, decisions,
                            marketEvents, handlers>> ]_vars

\* the errors connection c received in answer to messages of the given type
ErrorsFor(c, type) ==
    { i \in 1..Len(outbox[c]) :
        /\ outbox[c][i].type = "error"
        /\ outbox[c][i].payload.message = "Must join a session first"
        /\ received[outbox[c][i].src].type = type }

\* C13 witness: one connection without session has sent a player_action, a
\* switch_role and a reset_simulation and has been answered three errors
C13_Witness ==
    \E c \in ClientIds :
        /\ clients[c].sessionId = NoSession
        /\ ErrorsFor(c, "player_action") # {}
        /\ ErrorsFor(c, "switch_role") # {}
        /\ ErrorsFor(c, "reset_simulation") # {}
        /\ marketState = getInitialMarketState

\* C14: a request_historical_data with a quarter, from a connection that is
\* not bound to a user and a session, is answered with an error and does not
\* change the MarketState.
C14_HistoricalDataRequiresSession ==
    [][ \A c \in ClientIds, payload \in QuarterPayloads :
          ( /\ "quarter" \in DOMAIN payload
            /\ ~Bound(c)
            /\ handleHistoricalDataRequest(c, payload) )
          => /\ marketState' = marketState
             /\ ErrorsDelivered(c) # {} ]_vars

\* the roles and, for each, the action types the engine has a transition for
Roles == {"homebuyer", "investor", "regulator"}

ActionTypes(role) ==
    IF role = "homebuyer" THEN {"purchase", "wait"}
    ELSE IF role = "investor" THEN {"buy_properties", "securitize"}
    ELSE IF role = "regulator" THEN {"set_fed_rate", "set_ltv_limit", "require_stress_testing"}
    ELSE {}

HasNaN(ms) == \E f \in DOMAIN ms : IsNaN(ms[f])

\* C15 (No-op safety): a processed action with a recognized role and an
\* unrecognized actionType emits no events, leaves PolicyState unchanged and
\* changes MarketState by one updateMarketDynamics advance and nothing else
\* (timeStep advances by 0.25); it introduces no NaN.
C15_NoOpSafety ==
    [][ \A action \in EngineActions :
          ( /\ action.role \in Roles
            /\ action.actionType \notin ActionTypes(action.role)
            /\ EngineProcessPlayerAction(action) )
          => /\ processPlayerAction(marketState, policyState,
                     [ userId |-> "u1", role |-> action.role,
                       actionType |-> action.actionType,
                       parameters |-> action.parameters ]).marketEvents = << >>
             /\ policyState' = policyState
             /\ marketState' = updateMarketDynamics(marketState, policyState)
             /\ marketState'.timeStep = marketState.timeStep + Quantum
             /\ marketState'.mortgageRate = marketState.mortgageRate
             /\ marketState'.unemploymentRate = marketState.unemploymentRate
             /\ ~HasNaN(marketState) => ~HasNaN(marketState') ]_vars

\* C15 witness: a fresh engine has processed two actions, and its state is
\* the initial state advanced twice by the dynamics alone
C15_Witness ==
    /\ engineCalls = [actions |-> 2, resets |-> 0]
    /\ policyState = getInitialPolicyState
    /\ marketState =
          updateMarketDynamics(
              updateMarketDynamics(getInitialMarketState, getInitialPolicyState),
              getInitialPolicyState)
    /\ marketState.timeStep = 2 * Quantum
    /\ marketState.priceGrowth # getInitialMarketState.priceGrowth

\* C16 (Unknown role is a no-op): a player_action applied under a role that
\* is none of homebuyer, investor, regulator leaves MarketState and
\* PolicyState unchanged, returns no events and is answered no error.
C16_UnknownRoleLeavesState ==
    [][ \A c \in ClientIds, payload \in ActionPayloads :
          ( /\ Bound(c)
            /\ clients[c].role \notin Roles
            /\ handlePlayerAction(c, payload) )
          => /\ marketState' = marketState
             /\ policyState' = policyState
             /\ handlers'[nextSeq].result.marketEvents = << >>
             /\ ErrorsDelivered(c) = {} ]_vars

\* C16 as amended: such an action leaves PolicyState unchanged, changes
\* MarketState by the one updateMarketDynamics advance that every processed
\* action gets (timeStep advances by 0.25), returns no events and is
\* answered no error, neither when it is applied nor when its handler
\* completes.
C16_UnknownRoleOnlyAdvances ==
    [][ /\ \A c \in ClientIds, payload \in ActionPayloads :
             ( /\ Bound(c)
               /\ clients[c].role \notin Roles
               /\ handlePlayerAction(c, payload) )
             => /\ policyState' = policyState
                /\ marketState' = updateMarketDynamics(marketState, policyState)
                /\ marketState'.timeStep = marketState.timeStep + Quantum
                /\ handlers'[nextSeq].result.marketEvents = << >>
                /\ ErrorsDelivered(c) = {}
        /\ \A n \in DOMAIN handlers :
             (PlayerActionCompletes(n) /\ handlers[n].result.marketEvents = << >>)
             => ErrorsDelivered(handlers[n].client) = {} ]_vars

\* C16 witness: an action applied under the role "spectator" has been
\* recorded and its market_update, with no events, delivered
C16_Witness ==
    /\ \E k \in 1..Len(decisions) : decisions[k].role = "spectator"
    /\ \E d \in ClientIds : \E i \in ActionUpdates(d) :
          /\ outbox[d][i].payload.events = << >>
          /\ received[outbox[d][i].src].client = d
          /\ clients[d].role = "spectator"
    /\ marketState.timeStep = Quantum

\* C17: a session created by join_session {sessionName} is seeded with the
\* fixed initial values of the simulation, whatever was processed on the
\* server before: the row inserted, and the session and the market and
\* policy state that session_joined returns, all equal the initial state.
C17_NewSessionSeeded ==
    [][ \A n \in DOMAIN handlers :
          (handlers[n].call.op = "createGameSession" /\ JoinSessionResumes(n))
          => LET c == handlers[n].client
                 row == sessions'[Len(sessions')]
             IN /\ Len(sessions') = Len(sessions) + 1
                /\ row.marketState = getInitialMarketState
                /\ row.policyState = getInitialPolicyState
                /\ \A i \in 1..Len(Delivered(c)) :
                      Delivered(c)[i].type = "session_joined" =>
                          /\ Delivered(c)[i].payload.session = row
                          /\ Delivered(c)[i].payload.marketState = getInitialMarketState
                          /\ Delivered(c)[i].payload.policyState = getInitialPolicyState ]_vars

\* C18: switch_role changes only the connection's bound role and the
\* persisted session's currentRole.  Neither the step that receives it nor
\* the step that completes it changes MarketState (timeStep included) or
\* PolicyState, records a decision or an event, or delivers a message other
\* than role_switched and player_role_changed; the first changes nothing of
\* the connections but the sender's role, the second nothing of the session
\* rows but the currentRole of the sender's session.
C18_SwitchRoleFrame ==
    [][ /\ \A c \in ClientIds, payload \in RolePayloads :
             (clients[c].sessionId # NoSession /\ handleRoleSwitch(c, payload))
             => /\ UNCHANGED <<marketState, policyState, decisions, marketEvents,
                               sessions, outbox>>
                /\ clients' = [clients EXCEPT ![c].role = payload.role]
        /\ \A n \in DOMAIN handlers :
             RoleSwitchResumes(n)
             => LET h == handlers[n] IN
                /\ UNCHANGED <<marketState, policyState, decisions, marketEvents, clients>>
                /\ Len(sessions') = Len(sessions)
                /\ \A i \in 1..Len(sessions) :
                      /\ i # h.call.args.id => sessions'[i] = sessions[i]
                      /\ \A f \in DOMAIN sessions[i] \ {"currentRole"} :
                            sessions'[i][f] = sessions[i][f]
                /\ sessions'[h.call.args.id].currentRole = h.payload.role
                /\ \A d \in ClientIds : \A i \in 1..Len(Delivered(d)) :
                      Delivered(d)[i].type \in {"role_switched", "player_role_changed"} ]_vars

\* C18 witness: a connection has switched to the role "spectator", the role
\* is persisted in its session's row, and another connection of the session
\* has been told
C18_Witness ==
    \E c, d \in ClientIds :
        /\ c # d
        /\ clients[c].role = "spectator"
        /\ clients[c].sessionId # NoSession
        /\ sessions[clients[c].sessionId].currentRole = "spectator"
        /\ \E i \in 1..Len(outbox[c]) : outbox[c][i].type = "role_switched"
        /\ \E i \in 1..Len(outbox[d]) : outbox[d][i].type = "player_role_changed"

\* C19: an action is applied under the role and the participant id bound to
\* the sending connection when it is applied, whatever role or userId its
\* payload carries: the engine's state and the events are those of the
\* action under the bound role and id, every event's triggeredBy is that id,
\* and so is the triggeredBy of the market_update that reports the events.
C19_AppliedUnderBinding ==
    [][ /\ \A c \in ClientIds, payload \in ActionPayloads :
             (Bound(c) /\ handlePlayerAction(c, payload))
             => LET result == processPlayerAction(marketState, policyState,
                                  [ userId |-> clients[c].userId,
                                    role |-> clients[c].role,
                                    actionType |-> payload.actionType,
                                    parameters |-> payload.parameters ])
                    events == handlers'[nextSeq].result.marketEvents
                IN /\ marketState' = result.marketState
                   /\ policyState' = result.policyState
                   /\ events = result.marketEvents
                   /\ \A k \in 1..Len(events) : events[k].triggeredBy = clients[c].userId
        /\ \A n \in DOMAIN handlers :
             PlayerActionCompletes(n)
             => \A d \in ClientIds : \A i \in UpdatesDelivered(d) :
                   LET m == Delivered(d)[i].payload
                   IN \A k \in 1..Len(m.events) :
                         m.triggeredBy = m.events[k].triggeredBy ]_vars

\* C20 (Protocol errors are local): a message that does not parse, or whose
\* type is missing or unknown, causes exactly one error message to be sent
\* to the connection it came from and nothing to any other; the connection
\* stays registered with its bindings, and MarketState and PolicyState are
\* unchanged.
C20_ProtocolErrorsLocal ==
    [][ \A c \in ClientIds, type \in {"unparseable", "unknown"} :
          HandleBadMessage(c, type)
          => /\ Len(Delivered(c)) = 1
             /\ ErrorsDelivered(c) = {1}
             /\ \A d \in ClientIds \ {c} : outbox'[d] = outbox[d]
             /\ clients' = clients
             /\ IsOpen(clients', c)
             /\ UNCHANGED <<marketState, policyState>> ]_vars

\* the errors connection c received in answer to malformed messages
ProtocolErrors(c) ==
    { i \in 1..Len(outbox[c]) :
        /\ outbox[c][i].type = "error"
        /\ received[outbox[c][i].src].type \in {"unparseable", "unknown"} }

\* C20 witness: of two open connections bound to one session, one has sent
\* a malformed message and has its error; the other has no error
C20_Witness ==
    \E c, d \in ClientIds :
        /\ c # d
        /\ IsOpen(clients, c) /\ IsOpen(clients, d)
        /\ Bound(c) /\ Bound(d)
        /\ clients[c].sessionId = clients[d].sessionId
        /\ Cardinality(ProtocolErrors(c)) = 1
        /\ \A i \in 1..Len(outbox[d]) : outbox[d][i].type # "error"

\* C21: PolicyState is changed only by regulator actions: a step that
\* changes fedRate, maxLTV, capitalRequirements, stressTesting or
\* regulatoryStrength is the application of a set_fed_rate, set_ltv_limit or
\* require_stress_testing sent by a connection whose role is regulator; no
\* homebuyer or investor action, unrecognized action, switch_role,
\* request_historical_data, reset_simulation or periodic tick changes them.
C21_PolicyChangedByRegulatorOnly ==
    [][ policyState' # policyState
        => \E c \in ClientIds, payload \in ActionPayloads :
              /\ Bound(c)
              /\ clients[c].role = "regulator"
              /\ payload.actionType \in ActionTypes("regulator")
              /\ handlePlayerAction(c, payload) ]_vars

\* C21 witness: an investor's buy_properties has been applied and a
\* historical reset made, the MarketState has changed and the PolicyState is
\* the initial one
C21_Witness ==
    /\ \E k \in 1..Len(decisions) :
          decisions[k].role = "investor" /\ decisions[k].decisionType = "buy_properties"
    /\ engineCalls.resets >= 1
    /\ marketState # getInitialMarketState
    /\ policyState = getInitialPolicyState

\* the action the engine's caller passes for an element of EngineActions
EngineAction(action) ==
    [ userId |-> "u1", role |-> action.role,
      actionType |-> action.actionType, parameters |-> action.parameters ]

\* C22: regulator/set_fed_rate with a numeric rate, applied when fedRate is
\* old, sets fedRate to rate and emits exactly one fed_rate_change event
\* with eventData {oldRate: old, newRate: rate, change: rate - old} and
\* impact mortgageRateChange = 1.2 x change, demandChange = -10 x change and
\* coolingEffect 'moderate' when change > 0, 'stimulative' otherwise;
\* mortgageRate rises by 1.2 x change.
C22_SetFedRate ==
    [][ \A action \in EngineActions :
          ( /\ action.role = "regulator"
            /\ action.actionType = "set_fed_rate"
            /\ "rate" \in DOMAIN action.parameters
            /\ EngineProcessPlayerAction(action) )
          => LET rate == action.parameters.rate
                 old == policyState.fedRate
                 change == Sub(rate, old)
                 events == processPlayerAction(marketState, policyState,
                                               EngineAction(action)).marketEvents
             IN /\ policyState' = [policyState EXCEPT !.fedRate = rate]
                /\ Len(events) = 1
                /\ events[1].eventType = "fed_rate_change"
                /\ events[1].eventData = [oldRate |-> old, newRate |-> rate, change |-> change]
                /\ events[1].impact.mortgageRateChange = DivBy(Mul(change, 12), 10)
                /\ events[1].impact.demandChange = Neg(Mul(change, 10))
                /\ events[1].impact.coolingEffect =
                      (IF Greater(change, 0) THEN "moderate" ELSE "stimulative")
                /\ marketState'.mortgageRate =
                      Add(marketState.mortgageRate, DivBy(Mul(change, 12), 10)) ]_vars

\* C22 witness: the fed rate has gone from 2.25 to 5.0 on a fresh engine, and
\* the mortgage rate from 5.87 to 9.17
C22_Witness ==
    /\ engineCalls = [actions |-> 1, resets |-> 0]
    /\ policyState.fedRate = 500
    /\ marketState.mortgageRate = 917

\* C23 (mortgageRate tracks fedRate): in every state reachable by actions and
\* resets with numeric parameters, mortgageRate - 1.2 x fedRate has the
\* value it has initially, 5.87 - 1.2 x 2.25 = 3.17.
C23_MortgageRateTracksFedRate ==
    Sub(marketState.mortgageRate, DivBy(Mul(policyState.fedRate, 12), 10))
        = getInitialMarketState.mortgageRate
          - (getInitialPolicyState.fedRate * 12) \div 10

\* the larger of two integers
Larger(a, b) == IF a >= b THEN a ELSE b

\* C24: resetToHistoricalPeriod(q) overwrites exactly three fields:
\* timeStep = q; for q <= 4 bubbleRisk = 20 + 5q and priceGrowth = 12 + 2q;
\* for 4 < q <= 10 bubbleRisk = 45 + 8(q-4) and priceGrowth =
\* max(-10, 24 - 6(q-4)); for q > 10 bubbleRisk = max(10, 85 - 5(q-10)) and
\* priceGrowth = max(-25, -15 + 2(q-10)); every other MarketState field and
\* the PolicyState are unchanged.
C24_ResetOverwritesThreeFields ==
    [][ \A q \in EngineQuarters :
          EngineResetToHistoricalPeriod(q)
          => /\ marketState'.timeStep = 100 * q
             /\ marketState'.bubbleRisk =
                   (IF q <= 4 THEN 2000 + 500 * q
                    ELSE IF q <= 10 THEN 4500 + 800 * (q - 4)
                    ELSE Larger(1000, 8500 - 500 * (q - 10)))
             /\ marketState'.priceGrowth =
                   (IF q <= 4 THEN 1200 + 200 * q
                    ELSE IF q <= 10 THEN Larger(-1000, 2400 - 600 * (q - 4))
                    ELSE Larger(-2500, -1500 + 200 * (q - 10)))
             /\ \A f \in DOMAIN marketState \ {"timeStep", "bubbleRisk", "priceGrowth"} :
                   marketState'[f] = marketState[f]
             /\ policyState' = policyState ]_vars

\* C24 witness: a fresh engine reset to quarter 12 has bubbleRisk 75 and
\* priceGrowth -11, and its median price is still the initial one
C24_Witness ==
    /\ engineCalls = [actions |-> 0, resets |-> 1]
    /\ marketState.timeStep = 1200
    /\ marketState.bubbleRisk = 7500
    /\ marketState.priceGrowth = -1100
    /\ marketState.medianPrice = getInitialMarketState.medianPrice

\* C25: regulator/require_stress_testing emits a stress_testing_mandate
\* event, and applies its flat bubbleRisk reduction, exactly when stress
\* testing is newly enabled: stressTesting was false before the action and
\* enabled is true.  With enabled true while stress testing is already on,
\* or with enabled false, no event is emitted.
C25_EventOnlyWhenNewlyEnabled ==
    [][ \A action \in EngineActions :
          ( /\ action.role = "regulator"
            /\ action.actionType = "require_stress_testing"
            /\ EngineProcessPlayerAction(action) )
          => LET events == processPlayerAction(marketState, policyState,
                                               EngineAction(action)).marketEvents
                 newlyEnabled == ~policyState.stressTesting
                                 /\ Truthy(action.parameters, "enabled")
             IN /\ newlyEnabled =>
                      /\ Len(events) = 1
                      /\ events[1].eventType = "stress_testing_mandate"
                /\ ~newlyEnabled => events = << >> ]_vars

\* the distance of the i-th historical reference entry from the current
\* time step, the entries within 2 quarters of it, and the nearest of these
Distance(i) ==
    LET diff == load2008CrisisData[i].time - marketState.timeStep
    IN IF diff >= 0 THEN diff ELSE -diff

Within == { i \in 1..Len(load2008CrisisData) : Distance(i) < 200 }

Nearest == { i \in Within : \A j \in Within : Distance(i) <= Distance(j) }

\* C26: getHistoricalComparison returns currentRisk equal to the current
\* bubbleRisk and, when some historical reference entry is within 2 quarters
\* of the current timeStep, the narrative of the entry nearest to the
\* current timeStep (of one of them when two are equally near); it returns
\* 'Normal market conditions' exactly when no entry is within 2 quarters.
C26_NearestHistoricalEvent ==
    LET comparison == getHistoricalComparison(marketState)
    IN /\ comparison.currentRisk = marketState.bubbleRisk
       /\ IF Within = {}
          THEN comparison.historicalEvent = "Normal market conditions"
          ELSE \E i \in Nearest :
                  comparison.historicalEvent = load2008CrisisData[i].events

\* C27: from any state, the newState returned for investor/securitize has a
\* bubbleRisk greater than or equal to that of the newState an unrecognized
\* investor action returns from the same state, and strictly greater when
\* the latter is below the clamp of 100; the event reports
\* bubbleRiskIncrease 5.  (States whose numbers are all defined.)
C27_SecuritizeRaisesBubbleRisk ==
    LET securitized == processPlayerAction(marketState, policyState,
                           [ userId |-> "u1", role |-> "investor",
                             actionType |-> "securitize", parameters |-> Empty ])
        unrecognized == processPlayerAction(marketState, policyState,
                            [ userId |-> "u1", role |-> "investor",
                              actionType |-> "hold", parameters |-> Empty ])
    IN ~HasNaN(unrecognized.newState)
       => /\ LessEq(unrecognized.newState.bubbleRisk, securitized.newState.bubbleRisk)
          /\ Less(unrecognized.newState.bubbleRisk, 10000)
                => Less(unrecognized.newState.bubbleRisk, securitized.newState.bubbleRisk)
          /\ Len(securitized.marketEvents) = 1
          /\ securitized.marketEvents[1].impact.bubbleRiskIncrease = 500

\* C28 (Persisted snapshot converges): in a single session, once every
\* player_action handler has finished, none failing, the marketState and
\* policyState last written to the session's row are the engine's current
\* MarketState and PolicyState.
C28_SnapshotConverges ==
    (DOMAIN handlers = {} /\ decisions # << >>)
    => LET row == sessions[decisions[Len(decisions)].sessionId]
       IN /\ row.marketState = marketState
          /\ row.policyState = policyState

\* C29 (One consistent snapshot): the policyState of the market_update of a
\* player action is the PolicyState that held right after the action was
\* applied, the instant of its marketState.
C29_ConsistentSnapshot ==
    [][ \A n \in DOMAIN handlers :
          PlayerActionCompletes(n)
          => \A d \in ClientIds : \A i \in UpdatesDelivered(d) :
                /\ Delivered(d)[i].payload.marketState = handlers[n].result.newState
                /\ Delivered(d)[i].payload.policyState
                      = handlers[n].result.applied.policyState ]_vars

\* C30 (One session per action): the decision record, the event records,
\* the session-snapshot update and the market_update broadcast of one
\* player_action all use the session the connection was bound to when the
\* action was applied.
C30_OneSessionPerAction ==
    [][ \A n \in DOMAIN handlers :
          LET S == handlers[n].result.applied.sessionId
          IN /\ PlayerActionResumes(n)
                => /\ PersistingFor(handlers[n]) = S
                   /\ PersistingFor(handlers'[n]) = S
             /\ PlayerActionCompletes(n)
                => /\ handlers[n].call.args.id = S
                   /\ \A d \in ClientIds : \A i \in UpdatesDelivered(d) :
                         Delivered(d)[i].to = S ]_vars

====
